---- MODULE Spec2Model ----
(***************************************************************************)
(* Rotation-gesture detector of the Portal + MagSafe proof of concept.     *)
(*                                                                         *)
(* Two renditions of the detector exist in the repository and both are     *)
(* modelled here over the same state:                                      *)
(*   - the listener implementation (Phases 2-6 and calibrate), one action  *)
(*     per sensor listener, specification Spec;                            *)
(*   - the condensed onSensorUpdate routine of the "Detection Algorithm",  *)
(*     specification SpecAlgo, and the same routine driven by the 100 Hz   *)
(*     demo trace, specification SpecE2E.                                  *)
(*                                                                         *)
(* Units: time in ms, angular rate in deg/s, angle in millidegrees         *)
(* (deg/s * ms, i.e. the code's omega * dt scaled by 1000), magnetic field *)
(* in uT, acceleration in milli-g.                                         *)
(***************************************************************************)
EXTENDS Integers, Sequences, FiniteSets, TLC

VARIABLES
    now,            \* Date.now(), ms since mount
    isAttached,     \* useState(false), set by the Magnetometer listener
    isStationary,   \* set by the Accelerometer listener
    magBaseline,    \* useState(50), replaced by calibrate
    gyroBias,       \* useRef(0), replaced by calibrate
    accelWindow,    \* useRef<number[]>([])
    angleAccum,     \* useRef(0)
    lastTime,       \* useRef(Date.now())
    detents,        \* useState(0): the cumulative detent count
    detentHistory,  \* useRef<{count, time}[]>([])
    calibrating,    \* calibrate() is between its addListener calls and its timer
    calStart,       \* time at which calibrate() was called
    gyroSamples,    \* calibrate's local gyroSamples
    magSamples,     \* calibrate's local magSamples
    events,         \* what the detector has emitted so far (haptics and callbacks)
    effectPending   \* setDetents was called and the [detents] effect has not run yet

vars == << now, isAttached, isStationary, magBaseline, gyroBias, accelWindow,
           angleAccum, lastTime, detents, detentHistory, calibrating, calStart,
           gyroSamples, magSamples, events, effectPending >>

----------------------------------------------------------------------------
(* Program constants                                                       *)

MAG_ATTACH_DELTA == 40
MAG_DETACH_DELTA == 20
STATIONARY_RMS == 30
STATIONARY_WINDOW_SAMPLES == 20
STATIONARY_WINDOW_MS == 200
OMEGA_MIN == 30
DETENT_ANGLE == 30
GESTURE_WINDOW == 3000
CONFIRM_DETENTS == 2
CANCEL_DETENTS == -1
DWELL_TIME == 75
TILT_THRESHOLD == 8
CALIBRATION_MS == 1000
INITIAL_MAG_BASELINE == 50
UPDATE_INTERVAL == 10
SAMPLES_PER_SECOND == 100
DEMO_ANGLE == 60

\* DETENT_ANGLE in the model's angle unit (millidegrees).
DetentAngle == DETENT_ANGLE * 1000

\* Sign of gyro.z under a clockwise rotation ("rotate clockwise -> Z value goes
\* negative").
CLOCKWISE_Z == 0 - 1

\* Length of the Cooldown lockout after Confirm / Cancel, ms.  The repository
\* has no such lockout: the length is the design's "e.g. 500 ms".
COOLDOWN_MS == 500

\* The longest silence of a channel that is not a sensor gap, as a multiple of
\* the nominal interval.  The repository detects no gaps: the multiple is the
\* design's "configured multiple of the nominal interval".
GAP_MULTIPLE == 100

GapLimit == GAP_MULTIPLE * UPDATE_INTERVAL

\* |a| of a phone held still, milli-g ("Hold still -> |a| = 1.0g").
GRAVITY == 1000

\* The most time one gyroscope sample may integrate over, ms.  The repository
\* does not clamp dt: the value is the design's "e.g., 50 ms".
DT_CLAMP_MS == 50

\* The time a mounted component runs its first effects.
MountTime == 0

----------------------------------------------------------------------------
(* Bounds of the model and the inputs the environment draws from           *)

MaxTime == 5000
MaxEvents == 5
MaxCalSamples == 1
MaxAccelSamples == 2
MaxDetents == 3

Dts == {500, 3500}
Zs == {0 - 60, 20, 40}
MagMags == {50, 80, 100}
AccelMags == {0, 1000}
Tilts == {0, 20}

\* A rotation at a constant rate: the gyroscope reading held, deg/s, the biases
\* a calibration may have installed (rates of 60, -60 and 35 deg/s after
\* compensation), and the sample periods (nominal, and one delivered late).
HeldZ == 100
RateBiases == {40, 160, 65}
RateDts == {UPDATE_INTERVAL, UPDATE_INTERVAL + 5}

\* Gyroscope readings at and next to the integration threshold, deg/s.
ThresholdZs == {OMEGA_MIN, 0 - OMEGA_MIN, OMEGA_MIN + 1}

\* A fast spin on the mount, deg/s (inside the gyroscope's full-scale range).
FastZs == {1800}

----------------------------------------------------------------------------
(* Arithmetic on JavaScript numbers: NaN is the value of average([]).      *)

NaN == 0 - 1000000

Sub(a, b) == IF a = NaN \/ b = NaN THEN NaN ELSE a - b

Abs(a) == IF a < 0 THEN 0 - a ELSE a

\* a > b on JavaScript numbers: false when either side is NaN.
Gt(a, b) == a # NaN /\ b # NaN /\ a > b

\* Math.abs(a) > b
AbsGt(a, b) == a # NaN /\ Abs(a) > b

RECURSIVE SumSeq(_)
SumSeq(s) == IF s = << >> THEN 0 ELSE Head(s) + SumSeq(Tail(s))

RECURSIVE SumSq(_)
SumSq(s) == IF s = << >> THEN 0 ELSE Head(s) * Head(s) + SumSq(Tail(s))

HasNaN(s) == \E i \in DOMAIN s : s[i] = NaN

\* average(samples): the mean, NaN (0/0) for an empty array and for an array
\* holding a NaN.
Average(s) == IF s = << >> \/ HasNaN(s) THEN NaN ELSE SumSeq(s) \div Len(s)

\* sqrt(sum(v*v) / n) < STATIONARY_RMS, compared on the squares; false when
\* the rms is NaN.
RmsBelow(w) ==
    /\ w # << >>
    /\ ~HasNaN(w)
    /\ SumSq(w) < STATIONARY_RMS * STATIONARY_RMS * Len(w)

----------------------------------------------------------------------------
(* Phase 6: the detentHistory effect                                       *)

Entry(c, t) == [count |-> c, time |-> t]

RECURSIVE Prune(_, _)
\* detentHistory.filter(d => now - d.time < 3000)
Prune(h, t) ==
    IF h = << >> THEN << >>
    ELSE IF t - Head(h).time < GESTURE_WINDOW
         THEN << Head(h) >> \o Prune(Tail(h), t)
         ELSE Prune(Tail(h), t)

RECURSIVE Total(_)
\* detentHistory.reduce((sum, d) => sum + d.count, 0)
Total(h) == IF h = << >> THEN 0 ELSE Head(h).count + Total(Tail(h))

\* The confirm test with the threshold one detent too low.
IsConfirmLoose(total) == total >= 1

\* if (total >= 2)
IsConfirm(total) == total >= CONFIRM_DETENTS

\* else if (total <= -1)
IsCancel(total) == total <= CANCEL_DETENTS

GestureResult(total) ==
    IF IsConfirm(total) THEN "Confirm"
    ELSE IF IsCancel(total) THEN "Cancel"
    ELSE "None"

\* A reset that zeroes the counters and keeps the history.
ResetGestureKeepsHistory ==
    [angleAccum |-> 0, detents |-> 0, detentHistory |-> detentHistory]

\* resetGesture(): called after onConfirm / onCancel, not defined in the
\* repository; it forces the zeroed state.
ResetGesture == [angleAccum |-> 0, detents |-> 0, detentHistory |-> << >>]

----------------------------------------------------------------------------
(* The gesture state the detector is in, read off its variables: a gesture  *)
(* is being collected once a detent has been counted or recorded and until  *)
(* resetGesture() zeroes the state.  The detector has no lockout state.     *)

HasDetentEntry(h) == \E i \in DOMAIN h : h[i].time > MountTime

GestureState ==
    IF detents = 0 /\ ~HasDetentEntry(detentHistory) THEN "Idle" ELSE "Collecting"

----------------------------------------------------------------------------
(* Emitted events                                                          *)

\* Each event carries the haptic requested with it: impactAsync(Medium) with a
\* detent, notificationAsync(Success / Warning) with onConfirm / onCancel.
DetentEvent(dir, t, idle) ==
    [kind |-> "Detent", dir |-> dir, time |-> t, idle |-> idle, haptic |-> "Medium"]

ResultHaptic(k) ==
    IF k = "Confirm" THEN "Success" ELSE IF k = "Cancel" THEN "Warning" ELSE "None"

\* A result delivered without a haptic.
ResultEventSilent(k, t) ==
    [kind |-> k, dir |-> 0, time |-> t, idle |-> FALSE, haptic |-> "None"]

ResultEvent(k, t) ==
    [kind |-> k, dir |-> 0, time |-> t, idle |-> FALSE, haptic |-> ResultHaptic(k)]

\* confirmPayment() / cancelPayment() of onSensorUpdate: no haptic of their own.
PaymentEvent(k, t) ==
    [kind |-> k, dir |-> 0, time |-> t, idle |-> FALSE, haptic |-> "None"]

Emit(dir, t, result) ==
    IF result = "None"
    THEN << DetentEvent(dir, t, GestureState = "Idle") >>
    ELSE << DetentEvent(dir, t, GestureState = "Idle"), ResultEvent(result, t) >>

\* triggerHaptic(), then confirmPayment() / cancelPayment().
EmitAlgo(dir, t, result) ==
    IF result = "None"
    THEN << DetentEvent(dir, t, GestureState = "Idle") >>
    ELSE << DetentEvent(dir, t, GestureState = "Idle"), PaymentEvent(result, t) >>

Advance(d) == now + d <= MaxTime /\ now' = now + d

----------------------------------------------------------------------------
(* Initial state: mounted, first render done, the detentHistory effect has *)
(* run once with detents = 0.                                              *)

Init ==
    /\ now = MountTime
    /\ isAttached = FALSE
    /\ isStationary = FALSE
    /\ magBaseline = INITIAL_MAG_BASELINE
    /\ gyroBias = 0
    /\ accelWindow = << >>
    /\ angleAccum = 0
    /\ lastTime = MountTime
    /\ detents = 0
    /\ detentHistory = << Entry(0, MountTime) >>
    /\ calibrating = FALSE
    /\ calStart = 0
    /\ gyroSamples = << >>
    /\ magSamples = << >>
    /\ events = << >>
    /\ effectPending = FALSE

----------------------------------------------------------------------------
(* Phase 2: Magnetometer listener (and calibrate's magnetometer listener)  *)

Attached(magnitude, baseline) == Gt(Sub(magnitude, baseline), MAG_ATTACH_DELTA)

MagnetometerListener(magnitude) ==
    /\ isAttached' = Attached(magnitude, magBaseline)
    /\ magSamples' = IF calibrating THEN Append(magSamples, magnitude) ELSE magSamples

MagSampleOf(d, m) ==
    /\ Advance(d)
    /\ calibrating => Len(magSamples) < MaxCalSamples
    /\ MagnetometerListener(m)
    /\ UNCHANGED << isStationary, magBaseline, gyroBias, accelWindow, angleAccum,
                    lastTime, detents, detentHistory, calibrating, calStart,
                    gyroSamples, events, effectPending >>

MagSample == \E d \in Dts, m \in MagMags : MagSampleOf(d, m)

----------------------------------------------------------------------------
(* Phase 3: Accelerometer listener.  The listener reads x, y, z and keeps   *)
(* only their magnitude: the tilt of the sample is an input it never uses.  *)

PushWindow(w, m) ==
    LET pushed == Append(w, m)
    IN  IF Len(pushed) > STATIONARY_WINDOW_SAMPLES THEN Tail(pushed) ELSE pushed

AccelerometerListener(magnitude) ==
    /\ accelWindow' = PushWindow(accelWindow, magnitude)
    /\ isStationary' = RmsBelow(PushWindow(accelWindow, magnitude))

AccelSampleOf(d, m, tilt) ==
    /\ Advance(d)
    /\ tilt \in Tilts
    /\ Len(accelWindow) < MaxAccelSamples
    /\ AccelerometerListener(m)
    /\ UNCHANGED << isAttached, magBaseline, gyroBias, angleAccum, lastTime,
                    detents, detentHistory, calibrating, calStart, gyroSamples,
                    magSamples, events, effectPending >>

AccelSample == \E d \in Dts, m \in AccelMags, tilt \in Tilts : AccelSampleOf(d, m, tilt)

----------------------------------------------------------------------------
(* Phases 4-6: Gyroscope listener, detent logic and the detentHistory      *)
(* effect that the change of detents triggers                              *)

\* The integration with the nominal interval in place of the measured dt.
IntegratedNominal(z, t) ==
    LET omega == Sub(z, gyroBias)
    IN  IF isAttached /\ isStationary /\ AbsGt(omega, OMEGA_MIN)
        THEN angleAccum + omega * UPDATE_INTERVAL
        ELSE angleAccum

\* The integration with the rate test passing at the threshold itself.
IntegratedAtThreshold(z, t) ==
    LET omega == Sub(z, gyroBias)
    IN  IF isAttached /\ isStationary /\ AbsGt(omega, OMEGA_MIN - 1)
        THEN angleAccum + omega * (t - lastTime)
        ELSE angleAccum

Integrated(z, t) ==
    LET omega == Sub(z, gyroBias)
    IN  IF isAttached /\ isStationary /\ AbsGt(omega, OMEGA_MIN)
        THEN angleAccum + omega * (t - lastTime)
        ELSE angleAccum

\* The detent test passing only beyond the detent angle.
IsDetentBeyond(a) == Abs(a) > DetentAngle

IsDetent(a) == Abs(a) >= DetentAngle

Direction(a) == IF a > 0 THEN 1 ELSE 0 - 1

GyroscopeListener(z, t) ==
    LET a1 == Integrated(z, t)
        d1 == detents + Direction(a1)
        kept == Prune(Append(detentHistory, Entry(d1, t)), t)
        result == GestureResult(Total(kept))
    IN  /\ lastTime' = t
        /\ gyroSamples' = IF calibrating THEN Append(gyroSamples, z) ELSE gyroSamples
        /\ IF IsDetent(a1)
           THEN /\ Len(events) + 2 <= MaxEvents
                /\ events' = events \o Emit(Direction(a1), t, result)
                /\ IF result = "None"
                   THEN /\ angleAccum' = 0
                        /\ detents' = d1
                        /\ detentHistory' = kept
                   ELSE /\ angleAccum' = ResetGesture.angleAccum
                        /\ detents' = ResetGesture.detents
                        /\ detentHistory' = ResetGesture.detentHistory
           ELSE /\ angleAccum' = a1
                /\ UNCHANGED << detents, detentHistory, events >>

GyroSampleOf(d, z) ==
    /\ Advance(d)
    /\ calibrating => Len(gyroSamples) < MaxCalSamples
    /\ GyroscopeListener(z, now + d)
    /\ UNCHANGED << isAttached, isStationary, magBaseline, gyroBias, accelWindow,
                    calibrating, calStart, magSamples, effectPending >>

GyroSample == \E d \in Dts, z \in Zs : GyroSampleOf(d, z)

----------------------------------------------------------------------------
(* calibrate()                                                             *)

CalibrateStart ==
    \E d \in Dts :
        /\ Advance(d)
        /\ ~calibrating
        /\ calibrating' = TRUE
        /\ calStart' = now + d
        /\ gyroSamples' = << >>
        /\ magSamples' = << >>
        /\ UNCHANGED << isAttached, isStationary, magBaseline, gyroBias, accelWindow,
                        angleAccum, lastTime, detents, detentHistory, events,
                        effectPending >>

\* calibrate() completing in two steps: the timer callback installs the bias
\* and leaves the baseline for later.
CalibrateEndPartial ==
    \E d \in Dts :
        /\ Advance(d)
        /\ calibrating
        /\ now + d - calStart >= CALIBRATION_MS
        /\ gyroBias' = Average(gyroSamples)
        /\ calibrating' = FALSE
        /\ calStart' = 0
        /\ gyroSamples' = << >>
        /\ magSamples' = << >>
        /\ UNCHANGED << isAttached, isStationary, magBaseline, accelWindow, angleAccum,
                        lastTime, detents, detentHistory, events, effectPending >>

\* calibrate() completing with a running average: the value held before is
\* averaged in with the samples of the window.
CalibrateEndRunning ==
    \E d \in Dts :
        /\ Advance(d)
        /\ calibrating
        /\ now + d - calStart >= CALIBRATION_MS
        /\ gyroBias' = Average(<< gyroBias >> \o gyroSamples)
        /\ magBaseline' = Average(<< magBaseline >> \o magSamples)
        /\ calibrating' = FALSE
        /\ calStart' = 0
        /\ gyroSamples' = << >>
        /\ magSamples' = << >>
        /\ UNCHANGED << isAttached, isStationary, accelWindow, angleAccum, lastTime,
                        detents, detentHistory, events, effectPending >>

\* The setTimeout(resolve, 1000) has fired: the means are installed and the
\* two listeners removed.
CalibrateEnd ==
    \E d \in Dts :
        /\ Advance(d)
        /\ calibrating
        /\ now + d - calStart >= CALIBRATION_MS
        /\ gyroBias' = Average(gyroSamples)
        /\ magBaseline' = Average(magSamples)
        /\ calibrating' = FALSE
        /\ calStart' = 0
        /\ gyroSamples' = << >>
        /\ magSamples' = << >>
        /\ UNCHANGED << isAttached, isStationary, accelWindow, angleAccum, lastTime,
                        detents, detentHistory, events, effectPending >>

Next == MagSample \/ AccelSample \/ GyroSample \/ CalibrateStart \/ CalibrateEnd

Spec == Init /\ [][Next]_vars

\* The detector for as long as no calibration has completed.
NextUncalibrated == MagSample \/ AccelSample \/ GyroSample \/ CalibrateStart

SpecUncalibrated == Init /\ [][NextUncalibrated]_vars

\* Gyroscope samples of a fast spin of the mounted phone, delivered at the
\* nominal interval.
GyroBurst ==
    \E z \in FastZs :
        /\ isAttached /\ isStationary
        /\ GyroSampleOf(UPDATE_INTERVAL, z)

\* The listener and the effect as React runs them: the Gyroscope callback ends
\* with setDetents and the haptic (Phases 4-5); the effect on [detents]
\* (Phase 6) is a callback of its own that React runs after the re-render,
\* at Date.now() of its own run, and other callbacks can run before it.
GyroscopeCallback(z, t) ==
    LET a1 == Integrated(z, t)
    IN  /\ lastTime' = t
        /\ gyroSamples' = IF calibrating THEN Append(gyroSamples, z) ELSE gyroSamples
        /\ IF IsDetent(a1)
           THEN /\ Len(events) + 2 <= MaxEvents
                /\ Abs(detents + Direction(a1)) <= MaxDetents
                /\ events' = Append(events, DetentEvent(Direction(a1), t, GestureState = "Idle"))
                /\ detents' = detents + Direction(a1)
                /\ angleAccum' = 0
                /\ effectPending' = TRUE
           ELSE /\ angleAccum' = a1
                /\ UNCHANGED << detents, events, effectPending >>

GyroCallbackOf(d, z) ==
    /\ Advance(d)
    /\ calibrating => Len(gyroSamples) < MaxCalSamples
    /\ GyroscopeCallback(z, now + d)
    /\ UNCHANGED << isAttached, isStationary, magBaseline, gyroBias, accelWindow,
                    detentHistory, calibrating, calStart, magSamples >>

GyroCallback == \E d \in Dts, z \in Zs : GyroCallbackOf(d, z)

DetentEffect ==
    LET kept == Prune(Append(detentHistory, Entry(detents, now)), now)
        result == GestureResult(Total(kept))
    IN  /\ effectPending
        /\ effectPending' = FALSE
        /\ IF result = "None"
           THEN /\ detentHistory' = kept
                /\ UNCHANGED << angleAccum, detents, events >>
           ELSE /\ events' = Append(events, ResultEvent(result, now))
                /\ angleAccum' = ResetGesture.angleAccum
                /\ detents' = ResetGesture.detents
                /\ detentHistory' = ResetGesture.detentHistory
        /\ UNCHANGED << now, isAttached, isStationary, magBaseline, gyroBias, accelWindow,
                        lastTime, calibrating, calStart, gyroSamples, magSamples >>

NextAsync ==
    \/ MagSample \/ AccelSample \/ GyroCallback \/ DetentEffect
    \/ CalibrateStart \/ CalibrateEnd

SpecAsync == Init /\ [][NextAsync]_vars

\* The phone calibrated, attached and stationary, rotated at a constant rate
\* from the moment of the last gyroscope sample (time 0).
InitRate ==
    /\ now = MountTime
    /\ isAttached = TRUE
    /\ isStationary = TRUE
    /\ magBaseline = INITIAL_MAG_BASELINE
    /\ gyroBias \in RateBiases
    /\ accelWindow = << 0 >>
    /\ angleAccum = 0
    /\ lastTime = MountTime
    /\ detents = 0
    /\ detentHistory = << Entry(0, MountTime) >>
    /\ calibrating = FALSE
    /\ calStart = 0
    /\ gyroSamples = << >>
    /\ magSamples = << >>
    /\ events = << >>
    /\ effectPending = FALSE

RateSample == \E d \in RateDts : GyroSampleOf(d, HeldZ)

SpecRate == InitRate /\ [][RateSample]_vars

\* reset() requested by the embedding application.
Reset ==
    \E d \in Dts :
        /\ Advance(d)
        /\ angleAccum' = ResetGesture.angleAccum
        /\ detents' = ResetGesture.detents
        /\ detentHistory' = ResetGesture.detentHistory
        /\ UNCHANGED << isAttached, isStationary, magBaseline, gyroBias, accelWindow,
                        lastTime, calibrating, calStart, gyroSamples, magSamples,
                        events, effectPending >>

NextReset == Next \/ Reset

SpecReset == Init /\ [][NextReset]_vars

\* The listeners under slow rotation: gyroscope readings at and next to the
\* integration threshold.
GyroThreshold == \E d \in Dts, z \in ThresholdZs : GyroSampleOf(d, z)

NextThreshold ==
    MagSample \/ AccelSample \/ GyroThreshold \/ CalibrateStart \/ CalibrateEnd

SpecThreshold == Init /\ [][NextThreshold]_vars

\* A sensor delivers a sample whose reading is NaN.
InvalidSample ==
    \E d \in Dts :
        \/ MagSampleOf(d, NaN)
        \/ AccelSampleOf(d, NaN, 0)
        \/ GyroSampleOf(d, NaN)

NextInvalid == MagSample \/ AccelSample \/ GyroSample \/ InvalidSample

SpecInvalid == Init /\ [][NextInvalid]_vars

NextBurst == MagSample \/ AccelSample \/ GyroSample \/ GyroBurst

SpecBurst == Init /\ [][NextBurst]_vars

----------------------------------------------------------------------------
(* The Detection Algorithm: onSensorUpdate(gyro, accel, mag).  Its gates    *)
(* are locals computed from the arguments; detentCount is never reset.      *)

OnSensorUpdate(z, accel, magnitude, dt) ==
    LET attachedNow == Gt(Sub(magnitude, magBaseline), MAG_ATTACH_DELTA)
        stationaryNow == RmsBelow(accel)
        omega_z == Sub(z, gyroBias)
        gated == attachedNow /\ stationaryNow /\ AbsGt(omega_z, OMEGA_MIN)
        a1 == IF gated THEN angleAccum + omega_z * dt ELSE angleAccum
        d1 == detents + Direction(a1)
        result == GestureResult(d1)
    IN  /\ now' = now + dt
        /\ IF gated /\ IsDetent(a1)
           THEN /\ Len(events) + 2 <= MaxEvents
                /\ Abs(d1) <= MaxDetents
                /\ detents' = d1
                /\ angleAccum' = 0
                /\ events' = events \o EmitAlgo(Direction(a1), now + dt, result)
           ELSE /\ angleAccum' = a1
                /\ UNCHANGED << detents, events >>
        /\ UNCHANGED << isAttached, isStationary, magBaseline, gyroBias, accelWindow,
                        lastTime, detentHistory, calibrating, calStart, gyroSamples,
                        magSamples, effectPending >>

SensorUpdate ==
    \E d \in Dts, z \in Zs, a \in AccelMags, m \in MagMags :
        /\ now + d <= MaxTime
        /\ OnSensorUpdate(z, << a >>, m, d)

SpecAlgo == Init /\ [][SensorUpdate]_vars

\* The demo: attached and stationary, a steady clockwise rotation of
\* DEMO_ANGLE degrees spread over one second of samples, one sample every
\* UPDATE_INTERVAL ms.
DemoDuration == SAMPLES_PER_SECOND * UPDATE_INTERVAL

\* The rate of the demo rotation, deg/s.
DemoRate == (DEMO_ANGLE * 1000) \div DemoDuration

DemoSample ==
    /\ now < DemoDuration
    /\ OnSensorUpdate(CLOCKWISE_Z * DemoRate, << 0 >>,
                      INITIAL_MAG_BASELINE + MAG_ATTACH_DELTA + 1, UPDATE_INTERVAL)

SpecE2E == Init /\ [][DemoSample]_vars

----------------------------------------------------------------------------
(* Reading the emitted events                                              *)

IsDetentEvent(e) == e.kind = "Detent"

IsResultEvent(e) == e.kind \in {"Confirm", "Cancel", "Timeout"}

Count(k) == Cardinality({i \in DOMAIN events : events[i].kind = k})

\* events[j] is the first detent emitted after events[i].
IsNextDetent(i, j) ==
    /\ i < j
    /\ IsDetentEvent(events[j])
    /\ \A k \in (i + 1)..(j - 1) : ~IsDetentEvent(events[k])

\* events[i] is a detent of direction dir that started an episode from Idle.
StartsEpisode(i, dir) ==
    IsDetentEvent(events[i]) /\ events[i].dir = dir /\ events[i].idle

\* What the step emits.
NewEvents == SubSeq(events', Len(events) + 1, Len(events'))

----------------------------------------------------------------------------
(* Claims                                                                  *)

\* C1: a clockwise detent that starts an episode, followed after more than
\* GESTURE_WINDOW ms by the next detent, again clockwise: a Timeout is emitted
\* in between, the second detent starts a fresh episode, and no Confirm is
\* emitted between or at the two detents.
C1_StaleDetentNeverConfirms ==
    \A i \in DOMAIN events, j \in DOMAIN events :
        ( /\ StartsEpisode(i, 1)
          /\ IsNextDetent(i, j)
          /\ events[j].dir = 1
          /\ events[j].time - events[i].time > GESTURE_WINDOW )
        => /\ \E k \in (i + 1)..(j - 1) : events[k].kind = "Timeout"
           /\ \A k \in (i + 1)..(j - 1) : events[k].kind \notin {"Confirm", "Cancel"}
           /\ events[j].idle
           /\ ~(j + 1 <= Len(events) /\ IsResultEvent(events[j + 1]))

\* C2: a clockwise detent that starts an episode from Idle, followed less than
\* GESTURE_WINDOW ms later by the next detent, again clockwise: nothing is
\* emitted between the two, exactly one Confirm is emitted at the second, and
\* no other result follows it.
C2_TwoClockwiseConfirmOnce ==
    \A i \in DOMAIN events, j \in DOMAIN events :
        ( /\ StartsEpisode(i, 1)
          /\ IsNextDetent(i, j)
          /\ events[j].dir = 1
          /\ events[j].time - events[i].time < GESTURE_WINDOW )
        => /\ j = i + 1
           /\ j + 1 <= Len(events)
           /\ events[j + 1].kind = "Confirm"
           /\ (j + 2 <= Len(events) => IsDetentEvent(events[j + 2]))

\* C2 witness: two clockwise detents within the window, the first from Idle,
\* and the Confirm emitted at the second.
C2_Witness ==
    \E i \in DOMAIN events :
        /\ i + 2 <= Len(events)
        /\ StartsEpisode(i, 1)
        /\ IsDetentEvent(events[i + 1])
        /\ events[i + 1].dir = 1
        /\ events[i + 1].time - events[i].time < GESTURE_WINDOW
        /\ events[i + 2].kind = "Confirm"

\* C3: at most one gesture result per Collecting episode: between any two
\* emitted results lies a detent that started a new episode from Idle.
C3_OneResultPerEpisode ==
    \A p \in DOMAIN events, q \in DOMAIN events :
        (p < q /\ IsResultEvent(events[p]) /\ IsResultEvent(events[q]))
        => \E s \in (p + 1)..(q - 1) : IsDetentEvent(events[s]) /\ events[s].idle

\* C4: a step that takes the attachment gate from true to false while a
\* gesture is being collected leaves Idle, angleAccum = 0 and no detent in the
\* history, and emits nothing.
C4_DetachResets ==
    [][ (isAttached /\ ~isAttached' /\ GestureState = "Collecting")
        => /\ GestureState' = "Idle"
           /\ angleAccum' = 0
           /\ ~HasDetentEntry(detentHistory')
           /\ events' = events ]_vars

\* C5: a step that processes an accelerometer sample tilted beyond
\* TILT_THRESHOLD emits nothing and leaves angleAccum = 0, no detent in the
\* history and Idle.
C5_TiltCancels ==
    [][ \A d \in Dts, m \in AccelMags, tilt \in Tilts :
            (AccelSampleOf(d, m, tilt) /\ tilt > TILT_THRESHOLD)
            => /\ events' = events
               /\ angleAccum' = 0
               /\ ~HasDetentEntry(detentHistory')
               /\ GestureState' = "Idle" ]_vars

\* C6: for as long as no calibration has completed, both gates are false,
\* angleAccum is 0 and nothing has been emitted.
C6_UncalibratedFailSafe ==
    /\ ~isAttached
    /\ ~isStationary
    /\ angleAccum = 0
    /\ events = << >>

\* C7: a counter-clockwise detent emitted from Idle emits exactly one Cancel
\* with it (no Confirm, no Timeout) and leaves the detector in Cooldown.
C7_SingleCounterClockwiseCancels ==
    [][ (GestureState = "Idle" /\ NewEvents # << >> /\ NewEvents[1].dir = 0 - 1)
        => /\ Len(NewEvents) = 2
           /\ NewEvents[2].kind = "Cancel"
           /\ GestureState' = "Cooldown" ]_vars

\* C8: at the end of the demo trace (DEMO_ANGLE degrees clockwise in
\* DemoDuration ms) exactly two Detent haptics and exactly one Confirm have
\* been emitted, and no Cancel or Timeout.
C8_DemoTraceConfirms ==
    now = DemoDuration
    => /\ Count("Detent") = 2
       /\ Count("Confirm") = 1
       /\ Count("Cancel") = 0
       /\ Count("Timeout") = 0

\* C9: a calibration whose window closes with fewer than minSamples gyro
\* samples or fewer than minSamples magnetometer samples leaves gyroBias and
\* magBaseline as they were, for every minSamples >= 1.
C9_InsufficientSamplesKeepsCalibration ==
    [][ \A minSamples \in 1..(MaxCalSamples + 1) :
            ( /\ calibrating
              /\ ~calibrating'
              /\ (Len(gyroSamples) < minSamples \/ Len(magSamples) < minSamples) )
            => (gyroBias' = gyroBias /\ magBaseline' = magBaseline) ]_vars

\* C10: attachment hysteresis: the gate rises only on a delta above
\* MAG_ATTACH_DELTA, falls only on a delta below MAG_DETACH_DELTA, and a delta
\* between the two thresholds leaves it as it was.
C10_AttachmentHysteresis ==
    [][ \A d \in Dts, m \in MagMags :
            MagSampleOf(d, m)
            => LET delta == Sub(m, magBaseline)
               IN  /\ (~isAttached /\ isAttached') => Gt(delta, MAG_ATTACH_DELTA)
                   /\ (isAttached /\ delta # NaN /\ delta >= MAG_DETACH_DELTA)
                          => isAttached'
                   /\ (isAttached /\ ~isAttached')
                          => (delta = NaN \/ delta < MAG_DETACH_DELTA) ]_vars

\* C11: any two consecutively emitted detents (event and haptic) are at least
\* DWELL_TIME apart; a crossing that comes sooner emits nothing.
C11_DwellBetweenDetents ==
    \A i, j \in DOMAIN events :
        (IsDetentEvent(events[i]) /\ IsNextDetent(i, j))
            => events[j].time - events[i].time >= DWELL_TIME

\* C12: from a Confirm or Cancel until the Cooldown lockout has elapsed nothing
\* is emitted (no detent, no result) and no detent enters the history.
C12_CooldownLockout ==
    \A p \in DOMAIN events :
        events[p].kind \in {"Confirm", "Cancel"} =>
            /\ \A q \in DOMAIN events :
                   q > p => events[q].time - events[p].time >= COOLDOWN_MS
            /\ \A k \in DOMAIN detentHistory :
                   detentHistory[k].time > events[p].time
                       => detentHistory[k].time - events[p].time >= COOLDOWN_MS

\* C13: a sample with a NaN reading is dropped: the calibration, both gates,
\* the stationarity window, angleAccum, lastTime, the detent count and history
\* stay as they were and nothing is emitted.
C13_InvalidSampleDropped ==
    [][(\E d \in Dts : \/ MagSampleOf(d, NaN)
                       \/ AccelSampleOf(d, NaN, 0)
                       \/ GyroSampleOf(d, NaN))
         => UNCHANGED << isAttached, isStationary, magBaseline, gyroBias, accelWindow,
                         angleAccum, lastTime, detents, detentHistory, events >>]_vars

\* C14: when the gyroscope has been silent for longer than the gap limit while
\* a gesture is being collected or angleAccum is non-zero, the detector is
\* forced to Idle with angleAccum = 0 and an empty history, and the sample that
\* ends the gap emits no Confirm or Cancel.
C14_SensorGapResets ==
    [][(\E d \in Dts, z \in Zs :
            /\ GyroSampleOf(d, z)
            /\ now + d - lastTime > GapLimit
            /\ (GestureState = "Collecting" \/ angleAccum # 0))
         => /\ GestureState' = "Idle"
            /\ angleAccum' = 0
            /\ ~HasDetentEntry(detentHistory')
            /\ \A i \in DOMAIN NewEvents : ~IsResultEvent(NewEvents[i])]_vars

\* C15: a calibrate() or reset() request takes effect only between two
\* sample-processing steps: while a gyroscope sample has been quantized and
\* its recognition has not run yet, no step changes the calibration.
C15_CommandsBetweenSamples ==
    [][effectPending => (gyroBias' = gyroBias /\ magBaseline' = magBaseline)]_vars

\* The bias-compensated rate of the constant rotation and its longest sample
\* period.
HeldRate == HeldZ - gyroBias
MaxPeriod == UPDATE_INTERVAL + 5

\* C16: at a constant compensated rate w, |w| > OMEGA_MIN, from time 0 with
\* angleAccum = 0: until the first detent angleAccum is w times the elapsed
\* time, and the first detent is emitted at the first sample whose time t has
\* |w| * t >= DETENT_ANGLE: never before DETENT_ANGLE / |w| and less than one
\* sample period after it.
C16_LinearIntegration ==
    /\ events = << >> =>
           /\ angleAccum = HeldRate * (now - MountTime)
           /\ Abs(HeldRate) * (now - MountTime) < DetentAngle
    /\ events # << >> =>
           /\ IsDetentEvent(events[1])
           /\ events[1].dir = Direction(HeldRate)
           /\ Abs(HeldRate) * (events[1].time - MountTime) >= DetentAngle
           /\ Abs(HeldRate) * (events[1].time - MaxPeriod - MountTime) < DetentAngle

\* A first detent emitted by a sample that was delivered late.
C16_Witness ==
    /\ Len(events) = 1
    /\ now = events[1].time
    /\ Abs(HeldRate) * (now - MountTime) > DetentAngle
    /\ (now - MountTime) % UPDATE_INTERVAL # 0

\* C17: a device lying still is reported stationary: when every magnitude in
\* the window is 1.0 g, the accelerometer listener computes stationary = true.
C17_StillIsStationary ==
    [][(\E d \in Dts, tilt \in Tilts :
            /\ AccelSampleOf(d, GRAVITY, tilt)
            /\ \A i \in DOMAIN accelWindow' : accelWindow'[i] = GRAVITY)
         => isStationary']_vars

\* C18: clockwise rotation drives gyro.z negative and counts toward Confirm:
\* a detent emitted by a sample of clockwise rotation is a +1 detent, one
\* emitted by a sample of counter-clockwise rotation a -1 detent.
C18_ClockwiseCountsTowardConfirm ==
    [][\A d \in Dts, z \in Zs :
          (GyroSampleOf(d, z) /\ Len(events') > Len(events))
              => NewEvents[1].dir =
                    (IF Sub(z, gyroBias) * CLOCKWISE_Z > 0 THEN 1 ELSE 0 - 1)]_vars

\* v is what averaging the samples s yields: their mean (rounded down to the
\* model's unit), NaN when there is nothing to average.
IsMeanOf(v, s) ==
    IF s = << >> \/ HasNaN(s)
    THEN v = NaN
    ELSE v # NaN /\ v * Len(s) <= SumSeq(s) /\ SumSeq(s) < (v + 1) * Len(s)

IsZeroed == GestureState = "Idle" /\ angleAccum = 0 /\ detentHistory = << >>

RECURSIVE LastDetentTime(_)
LastDetentTime(h) ==
    IF h = << >> THEN MountTime
    ELSE IF LastDetentTime(Tail(h)) > Head(h).time
         THEN LastDetentTime(Tail(h))
         ELSE Head(h).time

\* C21: when a gesture is being collected and a sample that brings no detent
\* is processed GESTURE_WINDOW or more after the last retained detent, that
\* sample emits exactly one Timeout and leaves the detector Idle.
C21_TimeoutAtExpiry ==
    [][(\E d \in Dts :
            /\ \/ \E m \in MagMags : MagSampleOf(d, m)
               \/ \E m \in AccelMags, tilt \in Tilts : AccelSampleOf(d, m, tilt)
            /\ GestureState = "Collecting"
            /\ now + d - LastDetentTime(detentHistory) >= GESTURE_WINDOW)
         => /\ Len(NewEvents) = 1
            /\ NewEvents[1].kind = "Timeout"
            /\ GestureState' = "Idle"]_vars

\* Detent i belongs to the window of detent j: same episode (no result between
\* them) and less than GESTURE_WINDOW before j.
InWindowOf(i, j) ==
    /\ i <= j
    /\ IsDetentEvent(events[i])
    /\ events[j].time - events[i].time < GESTURE_WINDOW
    /\ \A k \in i..j : ~IsResultEvent(events[k])

\* The sum of the directions of the detents i..j that are in the window of j.
RECURSIVE WindowSum(_, _)
WindowSum(i, j) ==
    IF i > j THEN 0
    ELSE (IF InWindowOf(i, j) THEN events[i].dir ELSE 0) + WindowSum(i + 1, j)

\* The result emitted with detent j, "None" when there is none.
ResultAt(j) ==
    IF j < Len(events) /\ IsResultEvent(events[j + 1]) THEN events[j + 1].kind ELSE "None"

\* Every detent of the episode of detent j is still in the window of j.
NothingExpired(j) ==
    \A i \in 1..j :
        (IsDetentEvent(events[i]) /\ \A k \in i..j : ~IsResultEvent(events[k]))
            => InWindowOf(i, j)

\* C22: the outcome at each detent is decided by the sum of the directions of
\* the detents retained in the window: Confirm iff the sum is at least
\* CONFIRM_DETENTS, Cancel iff it is at most CANCEL_DETENTS, else no result.
\* Stated for the detents whose episode has lost no detent to the pruning.
C22_OutcomeIsWindowSum ==
    \A j \in DOMAIN events :
        (IsDetentEvent(events[j]) /\ NothingExpired(j))
            => ResultAt(j) = GestureResult(WindowSum(1, j))

\* C23: angleAccum is 0 in every state in which the phone is not attached or
\* not stationary.
C23_AngleZeroWhenUngated ==
    (~isAttached \/ ~isStationary) => angleAccum = 0

\* The gyroscope sample z passes the integration test in the current state.
Gated(z) == isAttached /\ isStationary /\ AbsGt(Sub(z, gyroBias), OMEGA_MIN)

C25_DtClamped ==
    [][\A d \in Dts, z \in Zs :
          (GyroSampleOf(d, z) /\ Gated(z))
              => IF events' = events
                 THEN Abs(angleAccum' - angleAccum)
                          <= Abs(Sub(z, gyroBias)) * DT_CLAMP_MS
                 ELSE Abs(angleAccum) + Abs(Sub(z, gyroBias)) * DT_CLAMP_MS
                          >= DetentAngle]_vars

\* The detents among the events emitted by the step.
NewDetents == {i \in DOMAIN NewEvents : IsDetentEvent(NewEvents[i])}

\* C26: at the end of every step |angleAccum| < DETENT_ANGLE; a step that
\* emits a detent emits one only and leaves angleAccum at exactly 0, the
\* overshoot discarded.
C26_AngleBelowDetent ==
    [][/\ Abs(angleAccum') < DetentAngle
       /\ Cardinality(NewDetents) <= 1
       /\ NewDetents # {} => angleAccum' = 0]_vars

\* A +1 detent has just been emitted at the uncalibrated bias, where every
\* crossing overshoots the detent angle.
C26_Witness ==
    /\ events # << >>
    /\ IsDetentEvent(events[Len(events)])
    /\ events[Len(events)].dir = 1
    /\ events[Len(events)].time = now
    /\ lastTime = now
    /\ gyroBias = 0
    /\ angleAccum = 0

\* C27: after an accelerometer sample at time t the window holds exactly the
\* samples of the last STATIONARY_WINDOW_MS: a sample that arrives more than
\* STATIONARY_WINDOW_MS after everything processed before it is alone in the
\* window.
C27_WindowPrunedByTime ==
    [][\A d \in Dts, m \in AccelMags, tilt \in Tilts :
          (AccelSampleOf(d, m, tilt) /\ d > STATIONARY_WINDOW_MS)
              => accelWindow' = << m >>]_vars

\* C28: while a calibration window is open every sample goes to the
\* calibration only: it leaves both gates, the stationarity window, angleAccum,
\* the detent history and the gesture state as they were and emits nothing.
C28_CalibrationTakesSamples ==
    [][(calibrating /\ calibrating')
         => /\ UNCHANGED << isAttached, isStationary, accelWindow, angleAccum,
                            detentHistory, events >>
            /\ GestureState' = GestureState]_vars

\* The step emits an event of kind k.
Emits(k) == \E i \in DOMAIN NewEvents : NewEvents[i].kind = k

\* C29: the gesture state moves only Idle -> Collecting (on a detent emitted
\* while attached and stationary), Collecting -> Cooldown (on Confirm or
\* Cancel), Collecting -> Idle (on Timeout) and Cooldown -> Idle.
C29_GestureTransitions ==
    [][/\ (GestureState = "Idle" /\ GestureState' = "Collecting")
             => (NewDetents # {} /\ isAttached /\ isStationary)
       /\ (Emits("Confirm") \/ Emits("Cancel")) => GestureState' = "Cooldown"
       /\ (GestureState = "Collecting" /\ GestureState' = "Idle") => Emits("Timeout")
       /\ GestureState = "Cooldown" => GestureState' \in {"Cooldown", "Idle"}]_vars

C31_CollectingEnds ==
    [][(calibrating' = calibrating /\ GestureState' = "Collecting")
         => now' - LastDetentTime(detentHistory') < GESTURE_WINDOW]_vars

HapticFor(k) ==
    IF k = "Detent" THEN "Medium"
    ELSE IF k = "Confirm" THEN "Success"
    ELSE IF k = "Cancel" THEN "Warning"
    ELSE "None"

IsTimeOrdered(h) ==
    \A i, j \in DOMAIN h : i <= j => h[i].time <= h[j].time

\* Every entry of h lies within GESTURE_WINDOW of the newest one.
IsWithinWindow(h) ==
    \A i \in DOMAIN h : LastDetentTime(h) - h[i].time < GESTURE_WINDOW

\* The directions of the detents of the running episode that are still in the
\* window of its newest detent, summed; 0 when no episode is running.
EpisodeSum ==
    IF events # << >> /\ IsDetentEvent(events[Len(events)])
    THEN WindowSum(1, Len(events))
    ELSE 0

HistoryOnlyWhileCollecting ==
    HasDetentEntry(detentHistory) <=> GestureState = "Collecting"

HistoryOrderedInWindow ==
    IsTimeOrdered(detentHistory) /\ IsWithinWindow(detentHistory)

HistorySumsEpisode ==
    Total(detentHistory) = EpisodeSum

====
